---- MODULE Spec2Model ----
(***************************************************************************)
(* Model of testmaster/compare_metrics.py (m-lab/ndt-e2e-testmaster).      *)
(*                                                                         *)
(* Conventions                                                             *)
(*   - A Python str that the program takes apart (a filename, a sample) is *)
(*     a sequence of one-character strings; dict keys that are literals of *)
(*     the program ('version', 'browsers', 'clients', the names in         *)
(*     `fields`) are TLA+ strings.                                         *)
(*   - A Python dict is a function whose DOMAIN is its key set; a          *)
(*     collections.defaultdict(factory) is read with GetItem, which yields *)
(*     the empty dict for a missing key, and the read inserts the key.     *)
(*   - A float is an integer number of hundredths (Scale = 100).  The      *)
(*     inputs are multiples of 0.25, which binary floating point           *)
(*     represents exactly, so sums are exact.                              *)
(*   - The value stored under a metric name is either the dict of samples  *)
(*     or, after averaging, a float: the two are told apart by `type`, as  *)
(*     compare_metrics does with type().                                   *)
(***************************************************************************)
EXTENDS Integers, Sequences, FiniteSets, TLC

VARIABLES pc, status, filename, m, row, old_results, new_results, nread, rows

vars == <<pc, status, filename, m, row, old_results, new_results, nread, rows>>

(***************************************************************************)
(* Python values                                                           *)
(***************************************************************************)
EmptyDict == [k \in {} |-> k]

SetItem(d, k, v) == [x \in (DOMAIN d) \cup {k} |-> IF x = k THEN v ELSE d[x]]

\* d[k] of a collections.defaultdict(factory): the value read (the key, when
\* missing, is set by the SetItem that follows every such read)
GetItem(d, k) == IF k \in DOMAIN d THEN d[k] ELSE EmptyDict

DictV(d) == [type |-> "defaultdict", d |-> d]

FloatV(x) == [type |-> "float", v |-> x]

StrV(s) == [type |-> "str", s |-> s]

Scale == 100

(***************************************************************************)
(* str.split, str.join and the regular expression of parse_filename        *)
(***************************************************************************)
Lower == {"a", "b", "c", "d", "e", "f", "g", "h", "i", "j", "k", "l", "m",
          "n", "o", "p", "q", "r", "s", "t", "u", "v", "w", "x", "y", "z"}

Digit == {"0", "1", "2", "3", "4", "5", "6", "7", "8", "9"}

RECURSIVE split(_, _)
split(s, sep) ==
    IF \A i \in 1..Len(s) : s[i] # sep
    THEN <<s>>
    ELSE LET i == CHOOSE j \in 1..Len(s) :
                      s[j] = sep /\ \A k \in 1..(j - 1) : s[k] # sep
         IN  <<SubSeq(s, 1, i - 1)>> \o split(SubSeq(s, i + 1, Len(s)), sep)

RECURSIVE join(_, _)
join(parts, sep) ==
    IF Len(parts) = 0 THEN <<>>
    ELSE IF Len(parts) = 1 THEN parts[1]
    ELSE parts[1] \o <<sep>> \o join(Tail(parts), sep)

\* The ways '^([a-z]+)(\d.*)$' matches s: <<i, e>> where group 1 is s[1..i]
\* and group 2 is s[i+1..e].  '.' matches anything but a line feed and '$'
\* matches at the end or before a final line feed.
regex_spans(s) ==
    {<<i, e>> \in (1..Len(s)) \X (1..Len(s)) :
        /\ i < e
        /\ \A k \in 1..i : s[k] \in Lower
        /\ s[i + 1] \in Digit
        /\ \A k \in (i + 2)..e : s[k] # "\n"
        /\ \/ e = Len(s)
           \/ e = Len(s) - 1 /\ s[Len(s)] = "\n"}

regex_match(s) == regex_spans(s) # {}

\* match.groups(): '+' and '*' are greedy, so the longest spans are taken
regex_groups(s) ==
    LET sp == CHOOSE x \in regex_spans(s) :
                  \A y \in regex_spans(s) : y[1] <= x[1] /\ y[2] <= x[2]
    IN  <<SubSeq(s, 1, sp[1]), SubSeq(s, sp[1] + 1, sp[2])>>

(***************************************************************************)
(* parse_filename                                                          *)
(***************************************************************************)
\* '-'.join(filename_parts[3:7]): the slice taken one segment too long
timestamp_of_long(filename_parts) == join(SubSeq(filename_parts, 4, 7), "-")

\* '-'.join(filename_parts[3:6])
timestamp_of(filename_parts) == join(SubSeq(filename_parts, 4, 6), "-")

\* The outcome of a call: "exit" is sys.exit(1), "return" is `return
\* metadata`; `metadata` is the dict as it stands when the call ends.
parse_filename(fname) ==
    LET filename_parts == split(fname, "-")
        os_matches == regex_match(filename_parts[1])
        browser_matches == regex_match(filename_parts[2])
        md0 == EmptyDict
        md1 == SetItem(SetItem(md0, "os", regex_groups(filename_parts[1])[1]),
                       "os_version", regex_groups(filename_parts[1])[2])
        md2 == IF browser_matches
               THEN SetItem(SetItem(md1, "browser",
                                    regex_groups(filename_parts[2])[1]),
                            "browser_version",
                            regex_groups(filename_parts[2])[2])
               ELSE md1
        md3 == SetItem(md2, "client", filename_parts[3])
        md4 == SetItem(md3, "timestamp", timestamp_of(filename_parts))
    IN  IF Len(filename_parts) # 7
        THEN [outcome |-> "exit", metadata |-> md0]
        ELSE IF ~os_matches
        THEN [outcome |-> "exit", metadata |-> md0]
        ELSE [outcome |-> "return", metadata |-> md4]

(***************************************************************************)
(* parse_csv                                                               *)
(***************************************************************************)
fields == <<"filename", "total_duration", "c2s_speed", "c2s_duration",
            "s2c_speed", "s2c_duration", "latency", "has_error",
            "error_list">>

\* 'Filename', the first cell of the row that parse_csv skips
HeaderCell == <<"F", "i", "l", "e", "n", "a", "m", "e">>

\* e2e_metrics[os][...][client][field] when [field] is about to be indexed by
\* a timestamp: the dict of samples, created empty on first use
series_of(cl, field) ==
    IF field \in DOMAIN cl THEN cl[field] ELSE DictV(EmptyDict)

\* Lines 142-146 for one field: the three assignments into e2e_metrics
assign_field(e2e_metrics, md, field, value) ==
    LET osn == SetItem(GetItem(e2e_metrics, md["os"]),
                       "version", md["os_version"])
        brs == GetItem(osn, "browsers")
        br  == SetItem(GetItem(brs, md["browser"]),
                       "version", md["browser_version"])
        cls == GetItem(br, "clients")
        cl  == GetItem(cls, md["client"])
        ser == DictV(SetItem(series_of(cl, field).d, md["timestamp"], value))
    IN  SetItem(e2e_metrics, md["os"],
            SetItem(osn, "browsers",
                SetItem(brs, md["browser"],
                    SetItem(br, "clients",
                        SetItem(cls, md["client"],
                            SetItem(cl, field, ser))))))

\* The loop `for field in fields` over fields[i..], for one row
RECURSIVE assign_fields(_, _, _, _)
assign_fields(e2e_metrics, md, r, i) ==
    IF i > Len(fields) THEN e2e_metrics
    ELSE IF fields[i] \in {"filename", "error_list"}
    THEN assign_fields(e2e_metrics, md, r, i + 1)
    ELSE assign_fields(assign_field(e2e_metrics, md, fields[i], r[fields[i]]),
                       md, r, i + 1)

\* Line 142 alone: what has been assigned when m['browser'] raises KeyError
assign_os_version(e2e_metrics, md) ==
    SetItem(e2e_metrics, md["os"],
            SetItem(GetItem(e2e_metrics, md["os"]), "version",
                    md["os_version"]))

\* One iteration of `for row in rows`: the outcome and e2e_metrics after it
parse_row(e2e_metrics, r) ==
    IF r["filename"] = HeaderCell
    THEN [outcome |-> "continue", e2e_metrics |-> e2e_metrics]
    ELSE LET parsed == parse_filename(r["filename"])
         IN  IF parsed.outcome = "exit"
             THEN [outcome |-> "exit", e2e_metrics |-> e2e_metrics]
             ELSE IF "browser" \notin DOMAIN parsed.metadata
             THEN [outcome |-> "KeyError",
                   e2e_metrics |->
                       assign_os_version(e2e_metrics, parsed.metadata)]
             ELSE [outcome |-> "continue",
                   e2e_metrics |->
                       assign_fields(e2e_metrics, parsed.metadata, r, 1)]

(***************************************************************************)
(* Floats: float(), round(x, 2) and division, in hundredths                *)
(***************************************************************************)
DigitValue == [c \in Digit |->
    CASE c = "0" -> 0 [] c = "1" -> 1 [] c = "2" -> 2 [] c = "3" -> 3
      [] c = "4" -> 4 [] c = "5" -> 5 [] c = "6" -> 6 [] c = "7" -> 7
      [] c = "8" -> 8 [] c = "9" -> 9]

RECURSIVE digits_value(_)
digits_value(ds) ==
    IF Len(ds) = 0 THEN 0
    ELSE 10 * digits_value(SubSeq(ds, 1, Len(ds) - 1)) + DigitValue[ds[Len(ds)]]

\* float(data) for a decimal numeral with at most two fraction digits
float(data) ==
    LET parts == split(data, ".")
        frac == IF Len(parts) = 1 THEN <<>> ELSE parts[2]
        padded == IF Len(frac) = 0 THEN <<"0", "0">>
                  ELSE IF Len(frac) = 1 THEN frac \o <<"0">>
                  ELSE frac
    IN  digits_value(parts[1]) * Scale + digits_value(padded)

\* n / d rounded to the nearest integer, halves away from zero, as round()
\* of Python 2 does; d # 0
round_div(n, d) ==
    LET an == IF n < 0 THEN -n ELSE n
        ad == IF d < 0 THEN -d ELSE d
        q  == (2 * an + ad) \div (2 * ad)
    IN  IF (n < 0) = (d < 0) THEN q ELSE -q

(***************************************************************************)
(* average_metrics                                                         *)
(***************************************************************************)
\* The number of samples that are not empty strings
count_of_valid(series) == Cardinality({ts \in DOMAIN series : series[ts] # <<>>})

\* count = len(results[...][metric])
count_of(series) == Cardinality(DOMAIN series)

\* The loop over iteritems(): metric_sum over the timestamps in todo
RECURSIVE metric_sum_of(_, _)
metric_sum_of(series, todo) ==
    IF todo = {} THEN 0
    ELSE LET ts == CHOOSE t \in todo : TRUE
         IN  (IF series[ts] # <<>> THEN float(series[ts]) ELSE 0)
                 + metric_sum_of(series, todo \ {ts})

\* int(metric_sum * 100 / count) / 100.0: the mean cut off, not rounded
mean_of_truncated(series) ==
    FloatV((metric_sum_of(series, DOMAIN series)) \div count_of(series))

\* round(metric_sum / count, 2)
mean_of(series) ==
    FloatV(round_div(metric_sum_of(series, DOMAIN series), count_of(series)))

\* results[opersys]['browsers'] and ...[browser]['clients'], read from a
\* defaultdict
browsers_of(results, o) == GetItem(results[o], "browsers")

clients_of(results, o, b) == GetItem(browsers_of(results, o)[b], "clients")

\* The <<opersys, browser, client, metric>> the four nested loops visit
paths(results) ==
    UNION {UNION {UNION {
        {<<o, b, c, mt>> : mt \in DOMAIN clients_of(results, o, b)[c]} :
            c \in DOMAIN clients_of(results, o, b)} :
                b \in DOMAIN browsers_of(results, o)} :
                    o \in DOMAIN results}

metric_at(results, p) == clients_of(results, p[1], p[2])[p[3]][p[4]]

\* mean = metric_sum / count raises ZeroDivisionError for some metric
average_raises(results) ==
    \E p \in paths(results) : count_of(metric_at(results, p).d) = 0

\* avgs when the loops are over: every metric replaced by its mean.  avgs is
\* the object `results` itself (avgs = results), so this is also what the
\* caller's `results` holds afterwards.
average_metrics(results) ==
    [o \in DOMAIN results |->
        SetItem(results[o], "browsers",
            [b \in DOMAIN browsers_of(results, o) |->
                SetItem(browsers_of(results, o)[b], "clients",
                    [c \in DOMAIN clients_of(results, o, b) |->
                        [mt \in DOMAIN clients_of(results, o, b)[c] |->
                            mean_of(metric_at(results, <<o, b, c, mt>>).d)]])])]

(***************************************************************************)
(* compare_metrics                                                         *)
(***************************************************************************)
\* old_avgs[opersys]['browsers'][browser]['clients'][client][metric], the
\* value read: an empty defaultdict when any key on the way is missing
old_lookup(old_avgs, p) ==
    LET cl == GetItem(GetItem(GetItem(GetItem(GetItem(old_avgs, p[1]),
                  "browsers"), p[2]), "clients"), p[3])
    IN  IF p[4] \in DOMAIN cl THEN cl[p[4]] ELSE DictV(EmptyDict)

\* old_avgs after that read: the missing keys have been created
old_after_lookup(old_avgs, p) ==
    LET osn == GetItem(old_avgs, p[1])
        brs == GetItem(osn, "browsers")
        br  == GetItem(brs, p[2])
        cls == GetItem(br, "clients")
        cl  == GetItem(cls, p[3])
    IN  SetItem(old_avgs, p[1],
            SetItem(osn, "browsers",
                SetItem(brs, p[2],
                    SetItem(br, "clients",
                        SetItem(cls, p[3],
                            SetItem(cl, p[4], old_lookup(old_avgs, p)))))))

\* A missing old value taken for 0.0
old_avg_of_zero(old_avgs, p) ==
    IF old_lookup(old_avgs, p).type = "defaultdict"
    THEN FloatV(0)
    ELSE old_lookup(old_avgs, p)

\* Lines 209-210
old_avg_of(old_avgs, p) ==
    IF old_lookup(old_avgs, p).type = "defaultdict"
    THEN StrV("none")
    ELSE old_lookup(old_avgs, p)

\* new_avg != 0 and old_avg != 'none': the test of old_avg against 0 left out
can_divide_old_zero(new_avg, old_avg) ==
    /\ new_avg.v # 0
    /\ old_avg # StrV("none")

\* new_avg != 0 and old_avg != 0 and old_avg != 'none'
can_divide(new_avg, old_avg) ==
    /\ new_avg.v # 0
    /\ old_avg.type = "float" => old_avg.v # 0
    /\ old_avg # StrV("none")

\* Lines 213-216: round((new_avg - old_avg) / new_avg, 2) * 100, or 'error'
delta_of(new_avg, old_avg) ==
    IF can_divide(new_avg, old_avg)
    THEN FloatV(round_div((new_avg.v - old_avg.v) * Scale, new_avg.v) * 100)
    ELSE StrV("error")

\* Lines 218-226
row_of(old_avgs, new_avgs, p) ==
    [os |-> p[1], browser |-> p[2], client |-> p[3], metric |-> p[4],
     old_avg |-> old_avg_of(old_avgs, p),
     new_avg |-> metric_at(new_avgs, p),
     change |-> delta_of(metric_at(new_avgs, p), old_avg_of(old_avgs, p))]

\* The body of the loops for the paths order[i..]: the rows appended and
\* old_avgs as the reads leave it
RECURSIVE compare_loop(_, _, _, _)
compare_loop(old_avgs, new_avgs, order, i) ==
    IF i > Len(order) THEN [rows |-> <<>>, old_avgs |-> old_avgs]
    ELSE LET rest == compare_loop(old_after_lookup(old_avgs, order[i]),
                                  new_avgs, order, i + 1)
         IN  [rows |-> <<row_of(old_avgs, new_avgs, order[i])>> \o rest.rows,
              old_avgs |-> rest.old_avgs]

\* The loops skipping what old_avgs does not hold (an inner join)
compare_metrics_inner(old_avgs, new_avgs, order) ==
    compare_loop(old_avgs, new_avgs,
                 SelectSeq(order, LAMBDA p : p \in paths(old_avgs)), 1)

compare_metrics(old_avgs, new_avgs, order) ==
    compare_loop(old_avgs, new_avgs, order, 1)

(***************************************************************************)
(* Iteration order of a dict.  Python 2 leaves it unspecified; the model   *)
(* lets one call of compare_metrics see the software keys in ascending or  *)
(* in descending order of their names, and the metrics in the order of     *)
(* `fields` or in the reverse order.                                       *)
(***************************************************************************)
Alphabet == <<"-", ".", "0", "1", "2", "3", "4", "5", "6", "7", "8", "9",
              "A", "F", "Z", "_", "a", "b", "c", "d", "e", "f", "g", "h", "i",
              "j", "k", "l", "m", "n", "o", "p", "q", "r", "s", "t", "u", "v",
              "w", "x", "y", "z">>

Ord(c) == CHOOSE i \in 1..Len(Alphabet) : Alphabet[i] = c

RECURSIVE str_less(_, _)
str_less(s, t) ==
    IF Len(t) = 0 THEN FALSE
    ELSE IF Len(s) = 0 THEN TRUE
    ELSE IF s[1] # t[1] THEN Ord(s[1]) < Ord(t[1])
    ELSE str_less(Tail(s), Tail(t))

field_index(f) == CHOOSE i \in 1..Len(fields) : fields[i] = f

Directions == {"forward", "backward"}

\* The loops nested the other way round: `for metric` outermost, the software
\* keys inside it
visited_before_metric_outer(p, q, keydir, metricdir) ==
    IF p[4] # q[4]
    THEN IF metricdir = "forward"
         THEN field_index(p[4]) < field_index(q[4])
         ELSE field_index(q[4]) < field_index(p[4])
    ELSE LET k == CHOOSE j \in 1..3 :
                      p[j] # q[j] /\ \A l \in 1..(j - 1) : p[l] = q[l]
         IN  IF keydir = "forward"
             THEN str_less(p[k], q[k])
             ELSE str_less(q[k], p[k])

\* p is visited before q by the four nested loops
visited_before(p, q, keydir, metricdir) ==
    LET k == CHOOSE j \in 1..4 : p[j] # q[j] /\ \A l \in 1..(j - 1) : p[l] = q[l]
    IN  IF k = 4
        THEN IF metricdir = "forward"
             THEN field_index(p[4]) < field_index(q[4])
             ELSE field_index(q[4]) < field_index(p[4])
        ELSE IF keydir = "forward"
             THEN str_less(p[k], q[k])
             ELSE str_less(q[k], p[k])

RECURSIVE visit_order(_, _, _)
visit_order(ps, keydir, metricdir) ==
    IF ps = {} THEN <<>>
    ELSE LET p == CHOOSE x \in ps :
                      \A y \in ps \ {x} : visited_before(x, y, keydir, metricdir)
         IN  <<p>> \o visit_order(ps \ {p}, keydir, metricdir)

(***************************************************************************)
(* Inputs of parse_filename: filenames put together from segments          *)
(***************************************************************************)
OsSegments == {<<"a", "1">>, <<"b", "1", ".", "2">>, <<"a", "b", "1", "b">>,
               <<"a">>, <<"1", "a">>, <<"A", "1">>, <<"a", "_", "1">>, <<>>}

BrowserSegments == {<<"c", "5">>, <<"d", "5", "7">>, <<"c">>, <<"5", "c">>,
                    <<"c", ".", "5">>}

ClientSegments == {<<"n">>, <<"m", "_", "j">>}

TimeSegments == {<<"6">>, <<"8", "Z">>}

LastSegments == {<<"r">>, <<"s", ".", "j">>}

\* The segment lists of exactly seven segments
SevenSegments ==
    {<<o, b, c, <<"7">>, <<"4">>, t, l>> :
        o \in OsSegments, b \in BrowserSegments, c \in ClientSegments,
        t \in TimeSegments, l \in LastSegments}

\* One segment short, and one segment too many
OtherSegments ==
    {SubSeq(p, 1, 6) : p \in SevenSegments}
        \cup {p \o <<l>> : p \in SevenSegments, l \in LastSegments}

FilenameInputs == {join(p, "-") : p \in SevenSegments \cup OtherSegments}

NoMetadata == [outcome |-> "none", metadata |-> EmptyDict]

(***************************************************************************)
(* SpecFilename: parse_filename called on one filename                     *)
(***************************************************************************)
InitFilename ==
    /\ pc = "parse_filename"
    /\ status = "running"
    /\ filename \in FilenameInputs
    /\ m = NoMetadata
    /\ row = EmptyDict
    /\ old_results = EmptyDict
    /\ new_results = EmptyDict
    /\ nread = [old |-> 0, new |-> 0]
    /\ rows = <<>>

CallParseFilename ==
    /\ pc = "parse_filename"
    /\ status = "running"
    /\ m' = parse_filename(filename)
    /\ status' = m'.outcome
    /\ UNCHANGED <<pc, filename, row, old_results, new_results, nread, rows>>

NextFilename == CallParseFilename

SpecFilename == InitFilename /\ [][NextFilename]_vars

(***************************************************************************)
(* Inputs of parse_csv: the rows csv.DictReader yields                     *)
(***************************************************************************)
MaxRows == 3

\* 'filename', the first cell of the header row of the CSV files in the tests
TestHeaderCell == <<"f", "i", "l", "e", "n", "a", "m", "e">>

\* The other cells of a header row; no code reads them
TitleCell == <<"t", "i", "t", "l", "e">>

\* A run without error: every measurement is a number
GoodRun ==
    [f \in {fields[i] : i \in 2..8} |->
        CASE f = "total_duration" -> <<"2", ".", "5">>
          [] f = "c2s_speed"      -> <<"0", ".", "2", "5">>
          [] f = "c2s_duration"   -> <<"1">>
          [] f = "s2c_speed"      -> <<"4">>
          [] f = "s2c_duration"   -> <<"0">>
          [] f = "latency"        -> <<"3">>
          [] f = "has_error"      -> <<"0">>]

\* A run that failed: no measurement but the total duration
FailedRun ==
    [f \in {fields[i] : i \in 2..8} |->
        CASE f = "total_duration" -> <<"1">>
          [] f = "has_error"      -> <<"1">>
          [] OTHER                -> <<>>]

MakeRow(fname, cells) ==
    [f \in {fields[i] : i \in 1..Len(fields)} |->
        IF f = "filename" THEN fname
        ELSE IF f = "error_list" THEN <<>>
        ELSE cells[f]]

\* Filenames of the documented form: three software keys next to a-c-n
GoodFilenames ==
    {join(p, "-") : p \in
        {<<<<"a", "1">>, <<"c", "5">>, <<"n">>, <<"7">>, <<"4">>, <<"6">>, <<"r">>>>,
         <<<<"a", "1">>, <<"c", "5">>, <<"n">>, <<"7">>, <<"4">>, <<"8", "Z">>, <<"r">>>>,
         <<<<"a", "1">>, <<"c", "5">>, <<"m", "_", "j">>, <<"7">>, <<"4">>, <<"6">>, <<"r">>>>,
         <<<<"a", "1">>, <<"d", "5", "7">>, <<"n">>, <<"7">>, <<"4">>, <<"6">>, <<"r">>>>,
         <<<<"b", "1", ".", "2">>, <<"c", "5">>, <<"n">>, <<"7">>, <<"4">>, <<"6">>, <<"r">>>>}}

\* Six segments, an OS without version, a browser without version
BadFilenames ==
    {join(p, "-") : p \in
        {<<<<"a", "1">>, <<"c", "5">>, <<"n">>, <<"7">>, <<"4">>, <<"6">>>>,
         <<<<"a">>, <<"c", "5">>, <<"n">>, <<"7">>, <<"4">>, <<"6">>, <<"r">>>>,
         <<<<"a", "1">>, <<"c">>, <<"n">>, <<"7">>, <<"4">>, <<"6">>, <<"r">>>>}}

HeaderRows ==
    {MakeRow(h, [f \in {fields[i] : i \in 2..8} |-> TitleCell]) :
        h \in {HeaderCell, TestHeaderCell}}

DataRows ==
    {MakeRow(fn, cells) : fn \in GoodFilenames, cells \in {GoodRun, FailedRun}}
        \cup {MakeRow(fn, GoodRun) : fn \in BadFilenames}

RowInputs == HeaderRows \cup DataRows

(***************************************************************************)
(* Spec: main().  parse_csv reads the old CSV and then the new one, a row  *)
(* a step; average_metrics runs on each; compare_metrics joins them.       *)
(***************************************************************************)
Init ==
    /\ pc = "parse_old"
    /\ status = "running"
    /\ filename = <<>>
    /\ m = NoMetadata
    /\ row = EmptyDict
    /\ old_results = EmptyDict
    /\ new_results = EmptyDict
    /\ nread = [old |-> 0, new |-> 0]
    /\ rows = <<>>

\* parse_csv(old_csv): one iteration of `for row in rows`
ReadOldRow ==
    /\ pc = "parse_old"
    /\ status = "running"
    /\ nread.old + nread.new < MaxRows
    /\ \E r \in RowInputs :
          /\ row' = r
          /\ old_results' = parse_row(old_results, r).e2e_metrics
          /\ status' = IF parse_row(old_results, r).outcome = "continue"
                       THEN "running"
                       ELSE parse_row(old_results, r).outcome
    /\ nread' = [nread EXCEPT !.old = @ + 1]
    /\ UNCHANGED <<pc, filename, m, new_results, rows>>

\* parse_csv(old_csv): the rows are exhausted, `return e2e_metrics`
ReturnOld ==
    /\ pc = "parse_old"
    /\ status = "running"
    /\ pc' = "parse_new"
    /\ row' = EmptyDict
    /\ UNCHANGED <<status, filename, m, old_results, new_results, nread, rows>>

\* parse_csv(new_csv): one iteration of `for row in rows`
ReadNewRow ==
    /\ pc = "parse_new"
    /\ status = "running"
    /\ nread.old + nread.new < MaxRows
    /\ \E r \in RowInputs :
          /\ row' = r
          /\ new_results' = parse_row(new_results, r).e2e_metrics
          /\ status' = IF parse_row(new_results, r).outcome = "continue"
                       THEN "running"
                       ELSE parse_row(new_results, r).outcome
    /\ nread' = [nread EXCEPT !.new = @ + 1]
    /\ UNCHANGED <<pc, filename, m, old_results, rows>>

\* parse_csv(new_csv): the rows are exhausted, `return e2e_metrics`
ReturnNew ==
    /\ pc = "parse_new"
    /\ status = "running"
    /\ pc' = "average_old"
    /\ row' = EmptyDict
    /\ UNCHANGED <<status, filename, m, old_results, new_results, nread, rows>>

\* old_avgs = average_metrics(old_results); old_avgs is old_results
AverageOld ==
    /\ pc = "average_old"
    /\ status = "running"
    /\ IF average_raises(old_results)
       THEN status' = "ZeroDivisionError" /\ UNCHANGED <<pc, old_results>>
       ELSE /\ old_results' = average_metrics(old_results)
            /\ pc' = "average_new"
            /\ UNCHANGED status
    /\ UNCHANGED <<filename, m, row, new_results, nread, rows>>

\* new_avgs = average_metrics(new_results); new_avgs is new_results
AverageNew ==
    /\ pc = "average_new"
    /\ status = "running"
    /\ IF average_raises(new_results)
       THEN status' = "ZeroDivisionError" /\ UNCHANGED <<pc, new_results>>
       ELSE /\ new_results' = average_metrics(new_results)
            /\ pc' = "compare"
            /\ UNCHANGED status
    /\ UNCHANGED <<filename, m, row, old_results, nread, rows>>

\* results = compare_metrics(old_avgs, new_avgs)
Compare ==
    /\ pc = "compare"
    /\ status = "running"
    /\ \E keydir \in Directions, metricdir \in Directions :
          LET order == visit_order(paths(new_results), keydir, metricdir)
              out == compare_metrics(old_results, new_results, order)
          IN  /\ rows' = out.rows
              /\ old_results' = out.old_avgs
    /\ pc' = "done"
    /\ UNCHANGED <<status, filename, m, row, new_results, nread>>

Next ==
    \/ ReadOldRow
    \/ ReturnOld
    \/ ReadNewRow
    \/ ReturnNew
    \/ AverageOld
    \/ AverageNew
    \/ Compare

Spec == Init /\ [][Next]_vars

(***************************************************************************)
(* Properties of parse_filename                                            *)
(***************************************************************************)
\* The longest prefix of s made of lowercase letters
LetterPrefixLen(s) ==
    CHOOSE n \in 0..Len(s) :
        /\ \A k \in 1..n : s[k] \in Lower
        /\ n = Len(s) \/ s[n + 1] \notin Lower

\* s is <letters><digit, anything>
NameAndVersion(s) ==
    /\ LetterPrefixLen(s) >= 1
    /\ LetterPrefixLen(s) < Len(s)
    /\ s[LetterPrefixLen(s) + 1] \in Digit

\* The segment lists whose filename is the one being parsed
SegmentsOfFilename ==
    {p \in SevenSegments \cup OtherSegments : join(p, "-") = filename}

Malformed(p) ==
    \/ Len(p) # 7
    \/ ~NameAndVersion(p[1])
    \/ ~NameAndVersion(p[2])

\* C1 (as claimed): a filename with a segment count other than 7, or whose OS
\* or browser segment is not <letters><digit...>, makes parse_filename fail
\* and return no metadata.
C1_MalformedRejected ==
    pc = "parse_filename" /\ status # "running" =>
        \A p \in SegmentsOfFilename :
            Malformed(p) => m.outcome = "exit" /\ m.metadata = EmptyDict

\* C8: for a filename of seven segments whose segments 0 and 1 are
\* <letters><digit...>, parse_filename returns os, os_version, browser,
\* browser_version as the letter prefix and the remainder of segments 0 and 1,
\* client as segment 2, timestamp as segments 3-5 joined by '-'; segment 6
\* does not appear in the result.
C8_WellFormedParsed ==
    pc = "parse_filename" /\ status # "running" =>
        \A p \in SegmentsOfFilename :
            ~Malformed(p) =>
                /\ m.outcome = "return"
                /\ DOMAIN m.metadata = {"os", "os_version", "browser",
                                        "browser_version", "client",
                                        "timestamp"}
                /\ m.metadata["os"] = SubSeq(p[1], 1, LetterPrefixLen(p[1]))
                /\ m.metadata["os_version"] =
                       SubSeq(p[1], LetterPrefixLen(p[1]) + 1, Len(p[1]))
                /\ m.metadata["browser"] =
                       SubSeq(p[2], 1, LetterPrefixLen(p[2]))
                /\ m.metadata["browser_version"] =
                       SubSeq(p[2], LetterPrefixLen(p[2]) + 1, Len(p[2]))
                /\ m.metadata["client"] = p[3]
                /\ m.metadata["timestamp"] = p[4] \o <<"-">> \o p[5]
                                                  \o <<"-">> \o p[6]

\* C8 witness: a well-formed filename with a multi-character version and a
\* last segment containing a dot has been parsed.
C8_Witness ==
    /\ pc = "parse_filename"
    /\ status = "return"
    /\ \E p \in SegmentsOfFilename :
           /\ ~Malformed(p)
           /\ p[1] = <<"a", "b", "1", "b">>
           /\ p[7] = <<"s", ".", "j">>
    /\ m.metadata["os"] = <<"a", "b">>

(***************************************************************************)
(* Properties of average_metrics                                           *)
(***************************************************************************)
AverageOldStep == pc = "average_old" /\ pc' = "average_new"

AverageNewStep == pc = "average_new" /\ pc' = "compare"

ValidTimestamps(series) == {ts \in DOMAIN series : series[ts] # <<>>}

\* The sum of the samples of series at the timestamps tss
RECURSIVE SampleTotal(_, _)
SampleTotal(series, tss) ==
    IF tss = {} THEN 0
    ELSE LET ts == CHOOSE t \in tss : \A u \in tss : ~str_less(u, t)
         IN  float(series[ts]) + SampleTotal(series, tss \ {ts})

\* avg (hundredths) is total / n rounded to the nearest hundredth
\* (n > 0; a half goes away from zero)
IsRoundedQuotient(avg, total, n) ==
    /\ 2 * (avg * n - total) <= n
    /\ 2 * (total - avg * n) <= n
    /\ 2 * (total - avg * n) = n => total <= 0
    /\ 2 * (avg * n - total) = n => total >= 0

\* after is before with every metric that has a valid sample replaced by the
\* mean of its valid samples
MeanOfValid(before, after) ==
    \A p \in paths(before) :
        LET series == metric_at(before, p).d
        IN  ValidTimestamps(series) # {} =>
                /\ metric_at(after, p).type = "float"
                /\ IsRoundedQuotient(metric_at(after, p).v,
                       SampleTotal(series, ValidTimestamps(series)),
                       Cardinality(ValidTimestamps(series)))

\* after is before with every metric replaced by the sum of its valid samples
\* divided by the number of all its samples
MeanOverAll(before, after) ==
    \A p \in paths(before) :
        LET series == metric_at(before, p).d
        IN  /\ metric_at(after, p).type = "float"
            /\ IsRoundedQuotient(metric_at(after, p).v,
                   SampleTotal(series, ValidTimestamps(series)),
                   Cardinality(DOMAIN series))

\* C2 (as claimed): average_metrics gives every metric the mean of its
\* non-empty samples only, rounded to 2 decimals: empty samples count neither
\* in the sum nor in the divisor.
C2_MeanOfValidSamples ==
    [][/\ AverageOldStep => MeanOfValid(old_results, old_results')
       /\ AverageNewStep => MeanOfValid(new_results, new_results')]_vars

\* C2 (amended): average_metrics gives every metric the sum of its non-empty
\* samples divided by the number of all its samples, empty ones included,
\* rounded to 2 decimals.
C2_MeanOverAllSamples ==
    [][/\ AverageOldStep => MeanOverAll(old_results, old_results')
       /\ AverageNewStep => MeanOverAll(new_results, new_results')]_vars

\* C2 witness: the old CSV held a good and a failed run of one software key;
\* its latency {3, ""} averaged to 1.5 and its c2s_speed {0.25, ""} to 0.13.
C2_Witness ==
    /\ pc = "average_new"
    /\ nread.old = 2
    /\ \E p \in paths(old_results) :
          /\ p[4] = "latency"
          /\ metric_at(old_results, p) = FloatV(150)
          /\ metric_at(old_results, <<p[1], p[2], p[3], "c2s_speed">>)
                 = FloatV(13)

AllEmpty(results) ==
    {p \in paths(results) : ValidTimestamps(metric_at(results, p).d) = {}}

AllFloats(before, after) ==
    \A p \in paths(before) : metric_at(after, p).type = "float"

\* C6: when a metric has only empty samples, average_metrics raises no
\* ZeroDivisionError, gives that metric a float, and averages every other
\* metric of every software key as well.
C6_AllEmptyAveraged ==
    [][/\ pc = "average_old" /\ AllEmpty(old_results) # {}
            => /\ status' = "running"
               /\ AverageOldStep
               /\ AllFloats(old_results, old_results')
               /\ MeanOverAll(old_results, old_results')
       /\ pc = "average_new" /\ AllEmpty(new_results) # {}
            => /\ status' = "running"
               /\ AverageNewStep
               /\ AllFloats(new_results, new_results')
               /\ MeanOverAll(new_results, new_results')]_vars

\* C6 witness: the old CSV held one failed run; its latency, all empty, has
\* been averaged to 0.0 and its total duration to 1.0.
C6_Witness ==
    /\ pc = "average_new"
    /\ status = "running"
    /\ \E p \in paths(old_results) :
          /\ p[4] = "latency"
          /\ metric_at(old_results, p) = FloatV(0)
          /\ metric_at(old_results, <<p[1], p[2], p[3], "total_duration">>)
                 = FloatV(100)

\* C10 (as claimed): average_metrics leaves the structure it is given
\* unchanged.
C10_InputUnchanged ==
    [][/\ pc = "average_old" => old_results' = old_results
       /\ pc = "average_new" => new_results' = new_results]_vars

(***************************************************************************)
(* Properties of compare_metrics                                           *)
(***************************************************************************)
PathOfRow(r) == <<r.os, r.browser, r.client, r.metric>>

RowsOf(p) == {i \in 1..Len(rows) : PathOfRow(rows[i]) = p}

\* C3: every row's %change is round((new_avg - old_avg) / new_avg, 2) * 100
\* exactly when new_avg is not 0 and the old value is a number other than 0,
\* and 'error' in every other case; the divisor is new_avg.
C3_PercentChange ==
    pc = "done" =>
        \A i \in 1..Len(rows) :
            LET r  == rows[i]
                nw == metric_at(new_results, PathOfRow(r))
                od == metric_at(old_results, PathOfRow(r))
            IN  /\ r.new_avg = nw
                /\ r.old_avg = IF od.type = "float" THEN od ELSE StrV("none")
                /\ IF nw.v # 0 /\ od.type = "float" /\ od.v # 0
                   THEN /\ r.change.type = "float"
                        /\ r.change.v % 100 = 0
                        /\ IF nw.v > 0
                           THEN IsRoundedQuotient(r.change.v \div 100,
                                    (nw.v - od.v) * Scale, nw.v)
                           ELSE IsRoundedQuotient(r.change.v \div 100,
                                    (od.v - nw.v) * Scale, -nw.v)
                   ELSE r.change = StrV("error")

\* C3 witness: one comparison with a row of each kind: a number (60.0 for
\* 1.0 -> 2.5), new_avg 0, old_avg 0, and old_avg 'none'.
C3_Witness ==
    /\ pc = "done"
    /\ \E i, j, k, l \in 1..Len(rows) :
          /\ rows[i].change = FloatV(6000)
          /\ rows[i].old_avg = FloatV(100) /\ rows[i].new_avg = FloatV(250)
          /\ rows[j].new_avg = FloatV(0) /\ rows[j].old_avg = FloatV(100)
          /\ rows[j].change = StrV("error")
          /\ rows[k].old_avg = FloatV(0) /\ rows[k].new_avg = FloatV(300)
          /\ rows[k].change = StrV("error")
          /\ rows[l].old_avg = StrV("none") /\ rows[l].new_avg = FloatV(300)
          /\ rows[l].change = StrV("error")

\* C4: compare_metrics returns exactly one row for each (os, browser, client,
\* metric) of new and no other row; what only old holds is not reported.
C4_OneRowPerNewMetric ==
    pc = "done" =>
        /\ \A p \in paths(new_results) : Cardinality(RowsOf(p)) = 1
        /\ \A i \in 1..Len(rows) : PathOfRow(rows[i]) \in paths(new_results)

\* C4 witness: a comparison where old holds a software key that new does not
\* and new one that old did not.
C4_Witness ==
    /\ pc = "done"
    /\ Len(rows) = 14
    /\ \E p \in paths(old_results) :
          /\ metric_at(old_results, p).type = "float"
          /\ p \notin paths(new_results)
    /\ \E i \in 1..Len(rows) : rows[i].old_avg = StrV("none")

\* C5: for every (software key, metric) of new that old does not hold,
\* compare_metrics does not fail and its row has old_avg 'none' and %change
\* 'error'.
C5_MissingInOld ==
    [][pc = "compare" =>
          \A p \in paths(new_results) \ paths(old_results) :
              /\ status' = "running"
              /\ pc' = "done"
              /\ \E i \in 1..Len(rows') : PathOfRow(rows'[i]) = p
              /\ \A i \in 1..Len(rows') :
                    PathOfRow(rows'[i]) = p =>
                        /\ rows'[i].old_avg = StrV("none")
                        /\ rows'[i].change = StrV("error")]_vars

\* C5 witness: a row with 'none' and 'error' for a client that old lacks
\* under a browser where old holds another client.
C5_Witness ==
    /\ pc = "done"
    /\ \E i \in 1..Len(rows) :
          /\ rows[i].old_avg = StrV("none")
          /\ rows[i].change = StrV("error")
          /\ rows[i].new_avg.v # 0
          /\ \E c \in DOMAIN clients_of(old_results, rows[i].os,
                                        rows[i].browser) :
                /\ c # rows[i].client
                /\ clients_of(old_results, rows[i].os,
                              rows[i].browser)[c]["latency"].type = "float"

\* C9 (as claimed): compare_metrics changes neither old nor new; the lookup
\* of a key that old lacks adds no key to old.
C9_InputsUnchanged ==
    [][pc = "compare" =>
          old_results' = old_results /\ new_results' = new_results]_vars

(***************************************************************************)
(* Properties of parse_csv                                                 *)
(***************************************************************************)
\* The e2e_metrics of the parse_csv call under way
CurrentMetrics == IF pc = "parse_old" THEN old_results ELSE new_results

RowsReadSoFar == IF pc = "parse_old" THEN nread.old ELSE nread.new

\* The values of row r are where parse_csv puts them
RowStored(e2e_metrics, r) ==
    \E p \in SevenSegments :
        /\ join(p, "-") = r["filename"]
        /\ LET o == SubSeq(p[1], 1, LetterPrefixLen(p[1]))
               b == SubSeq(p[2], 1, LetterPrefixLen(p[2]))
               t == p[4] \o <<"-">> \o p[5] \o <<"-">> \o p[6]
           IN  /\ o \in DOMAIN e2e_metrics
               /\ b \in DOMAIN browsers_of(e2e_metrics, o)
               /\ p[3] \in DOMAIN clients_of(e2e_metrics, o, b)
               /\ \A i \in 2..8 :
                     LET cl == clients_of(e2e_metrics, o, b)[p[3]]
                     IN  /\ fields[i] \in DOMAIN cl
                         /\ cl[fields[i]].type = "defaultdict"
                         /\ t \in DOMAIN cl[fields[i]].d
                         /\ cl[fields[i]].d[t] = r[fields[i]]

\* C7 (as claimed): parse_csv over a header row followed by data rows with
\* valid filenames completes, takes no sample from the header row, and holds
\* each row's raw value for every tracked field at its software key, metric
\* and timestamp.  Stated for the row just read: a header row read first
\* leaves the call running with nothing stored; a data row with a valid
\* filename leaves it running with its values stored.
C7_HeaderSkippedRowsStored ==
    pc \in {"parse_old", "parse_new"} /\ DOMAIN row # {} =>
        /\ row \in HeaderRows /\ RowsReadSoFar = 1 =>
              status = "running" /\ DOMAIN CurrentMetrics = {}
        /\ row["filename"] \in GoodFilenames =>
              status = "running" /\ RowStored(CurrentMetrics, row)

(***************************************************************************)
(* Order of the rows of compare_metrics                                    *)
(***************************************************************************)
SoftwareKeyOfRow(r) == <<r.os, r.browser, r.client>>

\* Software key k1 is smaller than k2: by os, then browser, then client
SoftwareKeyLess(k1, k2) ==
    \/ str_less(k1[1], k2[1])
    \/ k1[1] = k2[1] /\ str_less(k1[2], k2[2])
    \/ k1[1] = k2[1] /\ k1[2] = k2[2] /\ str_less(k1[3], k2[3])

\* The rows after which the first n parts of the software key change
Changes(n) ==
    {i \in 1..(Len(rows) - 1) :
        SubSeq(SoftwareKeyOfRow(rows[i]), 1, n)
            # SubSeq(SoftwareKeyOfRow(rows[i + 1]), 1, n)}

\* The rows that agree on the first n parts of the software key are next to
\* one another: the prefix changes once per distinct prefix
Contiguous(n) ==
    Len(rows) > 0 =>
        Cardinality(Changes(n)) + 1 =
            Cardinality({SubSeq(SoftwareKeyOfRow(rows[i]), 1, n) :
                            i \in 1..Len(rows)})

\* C11 (as claimed): the rows come in sorted-by-software order: no row of a
\* larger software key precedes a row of a smaller one, and the rows of one
\* software key are contiguous.
C11_SortedBySoftware ==
    pc = "done" =>
        /\ \A i \in 1..(Len(rows) - 1) :
              ~SoftwareKeyLess(SoftwareKeyOfRow(rows[i + 1]),
                               SoftwareKeyOfRow(rows[i]))
        /\ Contiguous(3)

\* C11 (amended): the rows of one software key are contiguous, as are the
\* rows of one os and those of one os and browser; the order of the software
\* keys is the iteration order of the dicts, which need not be sorted.
C11_GroupedBySoftware ==
    pc = "done" => Contiguous(1) /\ Contiguous(2) /\ Contiguous(3)

\* C11 witness: a comparison of two software keys where the rows of the
\* larger key, all seven, come before the rows of the smaller one.
C11_Witness ==
    /\ pc = "done"
    /\ Len(rows) >= 14
    /\ SoftwareKeyLess(SoftwareKeyOfRow(rows[8]), SoftwareKeyOfRow(rows[1]))
    /\ \A i \in 1..7 : SoftwareKeyOfRow(rows[i]) = SoftwareKeyOfRow(rows[1])

====
